---------------------------- MODULE Spec2Model ----------------------------
(***************************************************************************)
(* pytest-crap: the CRAP scoring pipeline.                                 *)
(*                                                                         *)
(*   mapper.py      FunctionMapper / map_functions  (AST -> line ranges)   *)
(*   calculator.py  calculate_crap                  (ranges + cc + cover)  *)
(*   reporter.py    CrapReporter.render_*           (rank, group, cut)     *)
(*                                                                         *)
(* Python floats are modelled as exact rationals [n, d] in lowest terms;   *)
(* IEEE rounding is not modelled.                                          *)
(***************************************************************************)
EXTENDS Integers, Sequences, FiniteSets, TLC

VARIABLES
    pc,             \* position of the calculate_crap call: "start" | "done"
    file_path,      \* calculate_crap argument
    disk,           \* what is at file_path: "readable" | "missing" | "unparsable"
    covered_lines,  \* calculate_crap argument: set of executed line numbers
    tree,           \* ast.parse(source): class / def / async def nodes, source order
    cc_nodes,       \* radon cc_visit(source): blocks with lineno / complexity
    funcs,          \* calculate_crap local: map_functions(file_path)
    cc_by_start,    \* calculate_crap local: start line -> complexity
    out,            \* calculate_crap result: list of FunctionScore
    failure,        \* the exception the call ended with, or Missing
    earlier         \* a call the caller remembers: its arguments and outcome

calcVars ==
    <<pc, file_path, disk, covered_lines, tree, cc_nodes, funcs, cc_by_start, out,
      failure, earlier>>

VARIABLES
    scores,         \* render_* argument: the FunctionScore list
    top_n,          \* render_* argument, Missing when the caller passes none
    threshold,      \* render_file_summary / render_folder_summary argument
    ranking,        \* render_* local: rows / summaries after sort and cut
    console,        \* the table last printed: its title and rows
    raised          \* the exception the last render_* call ended with, or Missing

reportVars == <<scores, top_n, threshold, ranking, console, raised>>

VARIABLES
    position,       \* where pytest_terminal_summary stands: "hook" ... "returned"
    config,         \* the pytest config: options and the coverage plugin chain
    measured,       \* data.measured_files() with data.lines(), in iteration order
    fault,          \* the render operation that raises in this run, or Missing
    exitstatus,     \* the exit status handed to the hook
    all_scores,     \* pytest_terminal_summary local: the scores collected
    scored,         \* the file names handed to calculate_crap, in call order
    tr,             \* the lines written to the terminal reporter
    calls,          \* the render operations invoked, with their arguments
    escaped         \* the exception that left the hook, or Missing

pluginVars ==
    <<position, config, measured, fault, exitstatus, all_scores, scored, tr, calls,
      escaped>>

vars == <<calcVars, reportVars, pluginVars>>

(***************************************************************************)
(* Bounds of the model.                                                    *)
(***************************************************************************)
MaxLine == 3        \* lines in a source file
MaxDefs == 2        \* class / function definitions in a source file
MaxCC == 2          \* largest complexity the analyzer reports
MaxScores == 3      \* scores handed to the reporter
MaxTopN == 2        \* largest top_n passed explicitly
MaxMapDefs == 3     \* class / function definitions in a file handed to the mapper

\* Python's None, where the other values are strings
None == "None"

\* An attribute that may be absent: <<>> when getattr gives None, <<v>> otherwise
Missing == <<>>

Some(v) == <<v>>

Lines == 1..MaxLine

Max(a, b) == IF a >= b THEN a ELSE b

Min(a, b) == IF a <= b THEN a ELSE b

(***************************************************************************)
(* Exact rational arithmetic standing in for Python float arithmetic.      *)
(***************************************************************************)
Abs(x) == IF x < 0 THEN -x ELSE x

RECURSIVE GCD(_, _)
GCD(a, b) == IF b = 0 THEN a ELSE GCD(b, a % b)

Rat(num, den) ==
    LET g == GCD(Abs(num), den)
    IN  [n |-> num \div g, d |-> den \div g]

RatOf(k) == [n |-> k, d |-> 1]

RatAdd(x, y) == Rat(x.n * y.d + y.n * x.d, x.d * y.d)

RatSub(x, y) == Rat(x.n * y.d - y.n * x.d, x.d * y.d)

RatMul(x, y) == Rat(x.n * y.n, x.d * y.d)

\* x / k for an integer k > 0
RatDivInt(x, k) == Rat(x.n, x.d * k)

RatLeq(x, y) == x.n * y.d <= y.n * x.d

RatLt(x, y) == x.n * y.d < y.n * x.d

(***************************************************************************)
(* mapper.py                                                               *)
(***************************************************************************)
Identifiers == <<"alpha", "beta", "gamma", "delta", "epsilon">>

NodeKinds == {"ClassDef", "FunctionDef", "AsyncFunctionDef"}

\* j encloses i: node i lies in the body of node j
Encloses(t, j, i) ==
    /\ t[j].lineno < t[i].lineno
    /\ t[i].end_lineno <= t[j].end_lineno

\* What ast.parse can return: definitions in source order, each on a line of
\* its own, bodies properly nested.
WellFormedTree(t) ==
    /\ \A i \in 1..Len(t) :
          /\ t[i].name = Identifiers[i]
          /\ t[i].lineno <= t[i].end_lineno
    /\ \A i, j \in 1..Len(t) :
          j < i => /\ t[j].lineno < t[i].lineno
                   /\ \/ Encloses(t, j, i)
                      \/ t[j].end_lineno < t[i].lineno

\* The i-th definition of a file: named Identifiers[i], ending no earlier than
\* it starts.
AstNodes(i) ==
    {node \in [kind : NodeKinds, name : {Identifiers[i]},
               lineno : Lines, end_lineno : Lines] :
        node.lineno <= node.end_lineno}

RECURSIVE TreesOfLen(_)
TreesOfLen(n) ==
    IF n = 0 THEN {<<>>}
    ELSE {t \in {Append(s, node) : s \in TreesOfLen(n - 1), node \in AstNodes(n)} :
            WellFormedTree(t)}

Trees == UNION {TreesOfLen(n) : n \in 0..MaxDefs}

\* The innermost definition whose body holds node i; 0 for the module.
ParentOf(t, i) ==
    LET anc == {j \in 1..(i - 1) : Encloses(t, j, i)}
    IN  IF anc = {} THEN 0 ELSE CHOOSE j \in anc : \A k \in anc : k <= j

\* ast.iter_child_nodes restricted to definitions, in source order
ChildrenOf(t, p) == {i \in 1..Len(t) : ParentOf(t, i) = p}

FunctionDef(name, start_line, end_line, is_method, is_async) ==
    [name |-> name, start_line |-> start_line, end_line |-> end_line,
     is_method |-> is_method, is_async |-> is_async]

\* FunctionMapper._add_function
AddFunction(functions, node, current_class, is_async) ==
    LET end_line == IF node.end_lineno = 0 THEN node.lineno ELSE node.end_lineno
    IN  Append(functions,
               FunctionDef(node.name, node.lineno, end_line,
                           current_class # None, is_async))

\* FunctionMapper.visit_ClassDef / visit_FunctionDef / visit_AsyncFunctionDef
\* and NodeVisitor.generic_visit.  self.current_class is passed down: the
\* class visitor sets it for its body and restores it afterwards, the function
\* visitors leave it as it is.  VisitAll visits the nodes of todo in source
\* order.
RECURSIVE VisitNode(_, _, _, _)
RECURSIVE VisitAll(_, _, _, _)
\* Variant: a function visitor that does not descend into the function body
VisitNodeShallow(t, i, current_class, functions) ==
    IF t[i].kind = "ClassDef"
    THEN VisitAll(t, ChildrenOf(t, i), t[i].name, functions)
    ELSE AddFunction(functions, t[i], current_class,
                     t[i].kind = "AsyncFunctionDef")

VisitNode(t, i, current_class, functions) ==
    IF t[i].kind = "ClassDef"
    THEN VisitAll(t, ChildrenOf(t, i), t[i].name, functions)
    ELSE VisitAll(t, ChildrenOf(t, i), current_class,
                  AddFunction(functions, t[i], current_class,
                              t[i].kind = "AsyncFunctionDef"))

VisitAll(t, todo, current_class, functions) ==
    IF todo = {} THEN functions
    ELSE LET i == CHOOSE x \in todo : \A y \in todo : x <= y
         IN  VisitAll(t, todo \ {i}, current_class,
                      VisitNode(t, i, current_class, functions))

\* map_functions: parse, visit the module, return mapper.functions
map_functions(t) == VisitAll(t, ChildrenOf(t, 0), None, <<>>)

(***************************************************************************)
(* calculator.py                                                           *)
(***************************************************************************)
\* A path is the sequence of its components
Paths == {<<"pkg", "f1.py">>}

Complexities == 0..MaxCC

Blocks ==
    [lineno : {Missing} \cup {Some(l) : l \in Lines},
     complexity : {Missing} \cup {Some(c) : c \in Complexities}]

\* What cc_visit returns here: no block, or one block
BlockLists == {<<>>} \cup {<<b>> : b \in Blocks}

\* calculate_crap lines 39-45: index the blocks by start line, skipping the
\* blocks that lack a line or a complexity; a later block overwrites an
\* earlier one with the same line.
RECURSIVE BuildCcByStart(_, _)
BuildCcByStart(nodes, acc) ==
    IF nodes = <<>> THEN acc
    ELSE LET node == Head(nodes)
             start == node.lineno
             complexity == node.complexity
         IN  IF start = Missing \/ complexity = Missing
             THEN BuildCcByStart(Tail(nodes), acc)
             ELSE BuildCcByStart(Tail(nodes),
                    [k \in (DOMAIN acc) \cup {start[1]} |->
                        IF k = start[1] THEN complexity[1] ELSE acc[k]])

EmptyMap == [k \in {} |-> 0]

\* dict.get(key, default)
DictGet(m, key, default) == IF key \in DOMAIN m THEN m[key] ELSE default

\* Variant: the span counted without its first line
TotalLinesOffByOne(fdef) == Max(1, fdef.end_line - fdef.start_line)

\* line 49
TotalLines(fdef) == Max(1, fdef.end_line - fdef.start_line + 1)

\* Variant: every covered line of the file counted, not only the function's
CoveredCountAnyLine(fdef, covered) == Cardinality(covered)

\* line 50
CoveredCount(fdef, covered) ==
    Cardinality({ln \in fdef.start_line..fdef.end_line : ln \in covered})

\* line 51: (covered / total_lines) * 100.0
CoveragePercent(fdef, covered) ==
    RatMul(Rat(CoveredCount(fdef, covered), TotalLines(fdef)), RatOf(100))

\* Variant: an unmatched function defaults to complexity 1
CcForDefaultOne(fdef, by_start) == DictGet(by_start, fdef.start_line, 1)

\* line 52
CcFor(fdef, by_start) == DictGet(by_start, fdef.start_line, 0)

\* Variant: the uncovered fraction squared, not cubed
CovFactorSquared(coverage_percent) ==
    LET u == RatSub(RatOf(1), RatDivInt(coverage_percent, 100))
    IN  RatMul(u, u)

\* Variant: the covered fraction cubed, not the uncovered one
CovFactorOfCovered(coverage_percent) ==
    LET u == RatDivInt(coverage_percent, 100)
    IN  RatMul(u, RatMul(u, u))

\* line 54: (1.0 - coverage_percent / 100.0) ** 3
CovFactor(coverage_percent) ==
    LET u == RatSub(RatOf(1), RatDivInt(coverage_percent, 100))
    IN  RatMul(u, RatMul(u, u))

\* Variant: the linear term left out
CrapNoLinearTerm(cc, cov_factor) == RatMul(RatOf(cc * cc), cov_factor)

\* line 55: (cc**2) * cov_factor + cc
Crap(cc, cov_factor) == RatAdd(RatMul(RatOf(cc * cc), cov_factor), RatOf(cc))

\* lines 48-66: one loop iteration
ScoreOf(fdef, path, covered, by_start) ==
    LET coverage_percent == CoveragePercent(fdef, covered)
        cc == CcFor(fdef, by_start)
    IN  [name |-> fdef.name,
         file_path |-> path,
         start_line |-> fdef.start_line,
         end_line |-> fdef.end_line,
         cc |-> cc,
         coverage_percent |-> coverage_percent,
         crap |-> Crap(cc, CovFactor(coverage_percent))]

\* Variant: the scores collected in reverse
ScoreAllReversed(fs, path, covered, by_start) ==
    [i \in 1..Len(fs) |-> ScoreOf(fs[Len(fs) + 1 - i], path, covered, by_start)]

\* lines 47-68: the loop over funcs, appending in order
ScoreAll(fs, path, covered, by_start) ==
    [i \in 1..Len(fs) |-> ScoreOf(fs[i], path, covered, by_start)]

\* calculate_crap as a function of what it reads
calculate_crap(path, t, nodes, covered) ==
    ScoreAll(map_functions(t), path, covered, BuildCcByStart(nodes, EmptyMap))

NoTable == [title |-> "", rows |-> <<>>]

\* No reporter call in progress
ReportIdle ==
    /\ scores = <<>>
    /\ top_n = Missing
    /\ threshold = RatOf(0)
    /\ ranking = <<>>
    /\ console = NoTable
    /\ raised = Missing

\* pytest_terminal_summary is not running
PluginIdle ==
    /\ position = "idle"
    /\ config = <<>>
    /\ measured = <<>>
    /\ fault = Missing
    /\ exitstatus = 0
    /\ all_scores = <<>>
    /\ scored = <<>>
    /\ tr = <<>>
    /\ calls = <<>>
    /\ escaped = Missing

\* The files scored here: calculate_crap reads no is_async, so plain and async
\* definitions score alike and the files hold classes and plain functions.
CalcTrees == {t \in Trees : \A i \in 1..Len(t) : t[i].kind # "AsyncFunctionDef"}

\* What the path can hold
FileStates == {"readable", "missing", "unparsable"}

\* map_functions lines 75-78: open() raises FileNotFoundError, ast.parse
\* raises SyntaxError
MapFailure(d) ==
    IF d = "missing" THEN Some("FileNotFoundError")
    ELSE IF d = "unparsable" THEN Some("SyntaxError")
    ELSE Missing

\* Variant: a failure to read or parse taken for a file without functions
CalcFailureSwallowed(d) == Missing

\* calculate_crap lines 31-34: its own open() raises FileNotFoundError, and
\* no try surrounds map_functions
CalcFailure(d) ==
    IF d = "missing" THEN Some("FileNotFoundError") ELSE MapFailure(d)

\* Variant: one dict shared by all the calls
FreshDictShared(previous) == previous

\* line 39: cc_by_start = {} makes a new dict on every call
FreshDict(previous) == EmptyMap

CalcInit ==
    /\ pc = "start"
    /\ file_path \in Paths
    /\ disk \in FileStates
    /\ covered_lines \in SUBSET Lines
    /\ tree \in (IF disk = "readable" THEN CalcTrees ELSE {<<>>})
    /\ cc_nodes \in (IF disk = "readable" THEN BlockLists ELSE {<<>>})
    /\ funcs = <<>>
    /\ cc_by_start = EmptyMap
    /\ out = <<>>
    /\ failure = Missing
    /\ earlier = Missing
    /\ ReportIdle
    /\ PluginIdle

\* The body of calculate_crap on a file in state d parsing to t, analysed as
\* nodes: an exception leaves no result behind
CallCalculateCrap(d, t, nodes, covered) ==
    /\ failure' = CalcFailure(d)
    /\ IF failure' = Missing
       THEN /\ funcs' = map_functions(t)
            /\ cc_by_start' = BuildCcByStart(nodes, FreshDict(cc_by_start))
            /\ out' = ScoreAll(funcs', file_path, covered, cc_by_start')
       ELSE /\ funcs' = <<>>
            /\ out' = <<>>
            /\ UNCHANGED cc_by_start
    /\ pc' = "done"

CalculateCrap ==
    /\ pc = "start"
    /\ CallCalculateCrap(disk, tree, cc_nodes, covered_lines)
    /\ UNCHANGED <<file_path, disk, covered_lines, tree, cc_nodes, earlier>>
    /\ UNCHANGED reportVars
    /\ UNCHANGED pluginVars

CalcNext == CalculateCrap

SpecCalc == CalcInit /\ [][CalcNext]_vars

\* The files and coverage of repeated calls: no file, a file that does not
\* parse, an empty file, or one function with or without a complexity block
RecalcFiles ==
    {[disk |-> d, tree |-> <<>>, cc_nodes |-> <<>>] : d \in FileStates}
    \cup {[disk |-> "readable", tree |-> t, cc_nodes |-> nodes] :
            t \in {u \in TreesOfLen(1) : u[1].kind = "FunctionDef"},
            nodes \in {<<>>} \cup {<<[lineno |-> Some(l), complexity |-> Some(c)]>> :
                                      l \in {1}, c \in 1..MaxCC}}

RecalcCovered == {{}, Lines}

\* The arguments and outcome of the call that has returned
ThisCall ==
    [disk |-> disk, tree |-> tree, cc_nodes |-> cc_nodes,
     covered_lines |-> covered_lines, out |-> out, failure |-> failure,
     between |-> FALSE]

SameArguments(call) ==
    /\ call.disk = disk
    /\ call.tree = tree
    /\ call.cc_nodes = cc_nodes
    /\ call.covered_lines = covered_lines

RecalcInit ==
    /\ pc = "start"
    /\ file_path \in Paths
    /\ \E f \in RecalcFiles :
          /\ disk = f.disk
          /\ tree = f.tree
          /\ cc_nodes = f.cc_nodes
    /\ covered_lines \in RecalcCovered
    /\ funcs = <<>>
    /\ cc_by_start = EmptyMap
    /\ out = <<>>
    /\ failure = Missing
    /\ earlier = Missing
    /\ ReportIdle
    /\ PluginIdle

\* A further call of calculate_crap on the same path, whose content and
\* coverage may have changed; the caller keeps the outcome it remembers or
\* remembers the call that has just returned.
CalculateCrapAgain ==
    /\ pc = "done"
    /\ \E f \in RecalcFiles, covered \in RecalcCovered :
          /\ disk' = f.disk
          /\ tree' = f.tree
          /\ cc_nodes' = f.cc_nodes
          /\ covered_lines' = covered
          /\ CallCalculateCrap(f.disk, f.tree, f.cc_nodes, covered)
    /\ \/ earlier' = Some(ThisCall)
       \/ /\ earlier # Missing
          /\ earlier' = Some([earlier[1] EXCEPT
                                !.between = @ \/ ~SameArguments(earlier[1])])
    /\ UNCHANGED file_path
    /\ UNCHANGED reportVars
    /\ UNCHANGED pluginVars

RecalcNext ==
    \/ CalculateCrap
    \/ CalculateCrapAgain

SpecRecalc == RecalcInit /\ [][RecalcNext]_vars

\* The files handed to map_functions alone: up to MaxMapDefs definitions of
\* any kind
MapTrees == UNION {TreesOfLen(n) : n \in 0..MaxMapDefs}

MapInit ==
    /\ pc = "parse"
    /\ file_path \in Paths
    /\ disk \in FileStates
    /\ tree \in (IF disk = "readable" THEN MapTrees ELSE {<<>>})
    /\ covered_lines = {}
    /\ cc_nodes = <<>>
    /\ funcs = <<>>
    /\ cc_by_start = EmptyMap
    /\ out = <<>>
    /\ failure = Missing
    /\ earlier = Missing
    /\ ReportIdle
    /\ PluginIdle

\* map_functions(file_path)
MapFunctions ==
    /\ pc = "parse"
    /\ failure' = MapFailure(disk)
    /\ funcs' = IF failure' = Missing THEN map_functions(tree) ELSE <<>>
    /\ pc' = "mapped"
    /\ UNCHANGED <<file_path, disk, covered_lines, tree, cc_nodes, cc_by_start, out,
                   earlier>>
    /\ UNCHANGED reportVars
    /\ UNCHANGED pluginVars

MapNext == MapFunctions

SpecMap == MapInit /\ [][MapNext]_vars

\* A call of map_functions or of calculate_crap on one file
CallsInit == CalcInit \/ MapInit

CallsNext ==
    \/ CalcNext
    \/ MapNext

SpecCalls == CallsInit /\ [][CallsNext]_vars

(***************************************************************************)
(* reporter.py                                                             *)
(***************************************************************************)
DefaultTopN == 20       \* top_n: int = 20

HighCrap == 30          \* _color_for_crap: crap > 30

MediumCrap == 15        \* _color_for_crap: crap > 15

\* CrapReporter(): the plugin passes no rootdir
ReporterRootdir == Missing

\* Variant: the boundaries 30 and 15 belong to the higher class
ColorForCrapInclusive(crap) ==
    IF RatLeq(RatOf(HighCrap), crap) THEN "red"
    ELSE IF RatLeq(RatOf(MediumCrap), crap) THEN "yellow"
    ELSE "green"

\* _color_for_crap
ColorForCrap(crap) ==
    IF RatLt(RatOf(HighCrap), crap) THEN "red"
    ELSE IF RatLt(RatOf(MediumCrap), crap) THEN "yellow"
    ELSE "green"

IsPrefix(a, b) == Len(a) <= Len(b) /\ SubSeq(b, 1, Len(a)) = a

\* _relative_path: the path itself without a rootdir or outside it
RelativePath(path) ==
    IF ReporterRootdir = Missing THEN path
    ELSE IF IsPrefix(ReporterRootdir[1], path)
         THEN SubSeq(path, Len(ReporterRootdir[1]) + 1, Len(path))
         ELSE path

\* f"{x:.2f}" and f"{x:.1f}": x >= 0 as a whole number of 1/scale, rounded
\* to nearest, ties to even
FormatFixed(x, scale) ==
    LET q == (x.n * scale) \div x.d
        r == (x.n * scale) % x.d
    IN  IF 2 * r > x.d THEN q + 1
        ELSE IF 2 * r = x.d THEN q + (q % 2)
        ELSE q

\* Variant: the last n entries kept
SliceLast(seq, n) ==
    IF n >= 0 THEN SubSeq(seq, Len(seq) - Min(n, Len(seq)) + 1, Len(seq))
    ELSE SubSeq(seq, 1, Max(0, Len(seq) + n))

\* seq[:n]
Slice(seq, n) ==
    IF n >= 0 THEN SubSeq(seq, 1, Min(n, Len(seq)))
    ELSE SubSeq(seq, 1, Max(0, Len(seq) + n))

\* if top_n: rows = rows[:top_n]
Truncate(rows, n) == IF n # 0 THEN Slice(rows, n) ELSE rows

\* Variant: no limit when the caller passes no top_n
TopNArgUnlimited(arg) == IF arg = Missing THEN 0 ELSE arg[1]

\* The parameter default: top_n when the caller passes none
TopNArg(arg) == IF arg = Missing THEN DefaultTopN ELSE arg[1]

\* Variant: entries with equal keys in reverse input order
PlaceOfTiesReversed(keys, i) ==
    1 + Cardinality({j \in DOMAIN keys :
                        \/ RatLt(keys[i], keys[j])
                        \/ keys[j] = keys[i] /\ j > i})

\* sorted(..., key=..., reverse=True) and list.sort(key=..., reverse=True):
\* descending by key, entries with equal keys in their input order.  keys[i]
\* is the key of seq[i]; PlaceOf is the position seq[i] is moved to.
PlaceOf(keys, i) ==
    1 + Cardinality({j \in DOMAIN keys :
                        \/ RatLt(keys[i], keys[j])
                        \/ keys[j] = keys[i] /\ j < i})

\* Variant: ascending order
SortedAscBy(seq, keys) ==
    [p \in 1..Len(seq) |->
        seq[CHOOSE i \in 1..Len(seq) : PlaceOf(keys, i) = Len(seq) + 1 - p]]

SortedDescBy(seq, keys) ==
    [p \in 1..Len(seq) |-> seq[CHOOSE i \in 1..Len(seq) : PlaceOf(keys, i) = p]]

\* The members of a set of indices, ascending
Ascending(S) ==
    [p \in 1..Cardinality(S) |->
        CHOOSE i \in S : Cardinality({j \in S : j < i}) = p - 1]

\* Variant: the topmost directory of the path
ParentDirTop(path) == IF Len(path) <= 1 THEN <<".">> ELSE SubSeq(path, 1, 1)

\* str(Path(file_path).parent)
ParentDir(path) == IF Len(path) <= 1 THEN <<".">> ELSE SubSeq(path, 1, Len(path) - 1)

\* Variant: the smallest crap of the group
MaxCrapOfLeast(sc, members) ==
    sc[CHOOSE i \in members : \A j \in members : RatLeq(sc[i].crap, sc[j].crap)].crap

\* max(f.crap for f in funcs)
MaxCrapOf(sc, members) ==
    sc[CHOOSE i \in members : \A j \in members : RatLeq(sc[j].crap, sc[i].crap)].crap

\* Variant: a crap equal to the threshold is not counted
CountAboveStrict(sc, members, thr) ==
    Cardinality({i \in members : RatLt(thr, sc[i].crap)})

\* sum(1 for f in funcs if f.crap >= threshold)
CountAbove(sc, members, thr) ==
    Cardinality({i \in members : RatLeq(thr, sc[i].crap)})

\* Variant: a maximum that needs two values to compare
MaxRaisesBelowTwo(members) == Cardinality(members) < 2

\* max() of an empty sequence raises ValueError
MaxRaises(members) == members = {}

\* The lists by_file / by_folder holds: the scores of each key
GroupsOf(sc, keys) ==
    {{i \in DOMAIN sc : keys[i] = k} : k \in {keys[i] : i \in DOMAIN keys}}

\* The exception the summary loop ends with, Missing when it completes
SummariesRaised(sc, keys) ==
    IF \E members \in GroupsOf(sc, keys) : MaxRaises(members)
    THEN Some("ValueError")
    ELSE Missing

\* Variant: list.sort(), ordering the caller's list in place
InputAfterSortInPlace(sc) == SortedDescBy(sc, [i \in DOMAIN sc |-> sc[i].crap])

\* sorted(scores, ...) builds a new list and leaves scores as it was
InputAfterSorted(sc) == sc

\* The grouping loops of render_file_summary and render_folder_summary:
\* dict.setdefault(key, []).append(s) keeps the groups in the order their
\* first member arrives; one FileSummary per group.  keys[i] is the group key
\* of sc[i].
Summaries(sc, keys, thr) ==
    LET firsts == Ascending({i \in DOMAIN keys : \A j \in 1..(i - 1) : keys[j] # keys[i]})
    IN  [g \in DOMAIN firsts |->
            LET members == {i \in DOMAIN sc : keys[i] = keys[firsts[g]]}
            IN  [file |-> keys[firsts[g]],
                 max_crap |-> MaxCrapOf(sc, members),
                 count_above |-> CountAbove(sc, members, thr)]]

SortedSummaries(summaries) ==
    SortedDescBy(summaries, [g \in DOMAIN summaries |-> summaries[g].max_crap])

\* render_function_table lines 95-97
FunctionRanking(sc, n) ==
    Truncate(SortedDescBy(sc, [i \in DOMAIN sc |-> sc[i].crap]), n)

\* render_file_summary lines 121-133
FileRanking(sc, n, thr) ==
    Truncate(SortedSummaries(
                Summaries(sc, [i \in DOMAIN sc |-> sc[i].file_path], thr)), n)

\* Variant: the folder table keyed by the file path itself
FolderRankingByFile(sc, n, thr) ==
    Truncate(SortedSummaries(
                Summaries(sc, [i \in DOMAIN sc |-> sc[i].file_path], thr)), n)

\* render_folder_summary lines 159-172
FolderRanking(sc, n, thr) ==
    Truncate(SortedSummaries(
                Summaries(sc, [i \in DOMAIN sc |-> ParentDir(sc[i].file_path)], thr)), n)

ColoredCrap(crap) == [color |-> ColorForCrap(crap), text |-> FormatFixed(crap, 100)]

\* table.add_row of render_function_table
FunctionRow(row) ==
    [crap |-> ColoredCrap(row.crap),
     cc |-> row.cc,
     coverage |-> FormatFixed(row.coverage_percent, 10),
     name |-> row.name,
     file |-> RelativePath(row.file_path)]

\* table.add_row of render_file_summary / render_folder_summary
SummaryRow(summary) ==
    [crap |-> ColoredCrap(summary.max_crap),
     count |-> summary.count_above,
     file |-> RelativePath(summary.file)]

FunctionTitle == "CRAP by Function"

FileTitle == "CRAP by File"

FolderTitle == "CRAP by Folder"

\* The scores handed to the reporter: one-line functions as calculate_crap
\* scores them, fully covered (crap = cc) or not covered (crap = cc^2 + cc).
ReportPaths == {<<"pkg", "f1.py">>, <<"pkg", "f3.py">>, <<"pkg", "sub", "f2.py">>}

ReportLevels ==
    {[cc |-> MediumCrap, covered |-> {1}],
     [cc |-> 5, covered |-> {}],
     [cc |-> HighCrap + 5, covered |-> {1}]}

ReportScore(name, path, level) ==
    ScoreOf(FunctionDef(name, 1, 1, FALSE, FALSE), path, level.covered,
            [k \in {1} |-> level.cc])

RECURSIVE ScoreListsOfLen(_)
ScoreListsOfLen(n) ==
    IF n = 0 THEN {<<>>}
    ELSE {Append(sl, ReportScore(Identifiers[n], path, level)) :
            sl \in ScoreListsOfLen(n - 1), path \in ReportPaths, level \in ReportLevels}

\* One list longer than the default top_n: crap 15, 30, 35, 15, ... over
\* two files
LongScoreList ==
    [i \in 1..(DefaultTopN + 1) |->
        ReportScore(Identifiers[(i % Len(Identifiers)) + 1],
                    IF i % 2 = 0 THEN <<"pkg", "f1.py">> ELSE <<"pkg", "sub", "f2.py">>,
                    IF i % 3 = 1 THEN [cc |-> MediumCrap, covered |-> {1}]
                    ELSE IF i % 3 = 2 THEN [cc |-> 5, covered |-> {}]
                    ELSE [cc |-> HighCrap + 5, covered |-> {1}])]

ScoreLists == UNION {ScoreListsOfLen(n) : n \in 0..MaxScores} \cup {LongScoreList}

TopNs == {Missing} \cup {Some(n) : n \in (0 - 1)..MaxTopN}

Thresholds == {RatOf(MediumCrap), RatOf(HighCrap)}

\* No calculate_crap call in progress
CalcIdle ==
    /\ pc = "idle"
    /\ file_path = <<>>
    /\ disk = "readable"
    /\ covered_lines = {}
    /\ tree = <<>>
    /\ cc_nodes = <<>>
    /\ funcs = <<>>
    /\ cc_by_start = EmptyMap
    /\ out = <<>>
    /\ failure = Missing
    /\ earlier = Missing

ReportInit ==
    /\ scores \in ScoreLists
    /\ top_n \in TopNs
    /\ threshold \in Thresholds
    /\ ranking = <<>>
    /\ console = NoTable
    /\ raised = Missing
    /\ CalcIdle
    /\ PluginIdle

\* The body of render_function_table(scores, top_n)
FunctionTableCall ==
    /\ ranking' = FunctionRanking(scores, TopNArg(top_n))
    /\ console' = [title |-> FunctionTitle,
                   rows |-> [i \in DOMAIN ranking' |-> FunctionRow(ranking'[i])]]
    /\ scores' = InputAfterSorted(scores)
    /\ raised' = Missing

\* The body of render_file_summary(scores, top_n, threshold)
FileSummaryCall ==
    /\ raised' = SummariesRaised(scores, [i \in DOMAIN scores |-> scores[i].file_path])
    /\ IF raised' = Missing
       THEN /\ ranking' = FileRanking(scores, TopNArg(top_n), threshold)
            /\ console' = [title |-> FileTitle,
                           rows |-> [i \in DOMAIN ranking' |-> SummaryRow(ranking'[i])]]
       ELSE UNCHANGED <<ranking, console>>
    /\ UNCHANGED scores

\* The body of render_folder_summary(scores, top_n, threshold)
FolderSummaryCall ==
    /\ raised' = SummariesRaised(scores,
                                 [i \in DOMAIN scores |-> ParentDir(scores[i].file_path)])
    /\ IF raised' = Missing
       THEN /\ ranking' = FolderRanking(scores, TopNArg(top_n), threshold)
            /\ console' = [title |-> FolderTitle,
                           rows |-> [i \in DOMAIN ranking' |-> SummaryRow(ranking'[i])]]
       ELSE UNCHANGED <<ranking, console>>
    /\ UNCHANGED scores

RenderFunctionTable ==
    /\ FunctionTableCall
    /\ UNCHANGED <<top_n, threshold>>
    /\ UNCHANGED calcVars
    /\ UNCHANGED pluginVars

RenderFileSummary ==
    /\ FileSummaryCall
    /\ UNCHANGED <<top_n, threshold>>
    /\ UNCHANGED calcVars
    /\ UNCHANGED pluginVars

RenderFolderSummary ==
    /\ FolderSummaryCall
    /\ UNCHANGED <<top_n, threshold>>
    /\ UNCHANGED calcVars
    /\ UNCHANGED pluginVars

ReportNext ==
    \/ RenderFunctionTable
    \/ RenderFileSummary
    \/ RenderFolderSummary

SpecReport == ReportInit /\ [][ReportNext]_vars

(***************************************************************************)
(* plugin.py                                                               *)
(***************************************************************************)
MaxFiles == 3       \* measured files in the coverage data

\* File names are read character by character here: a path is the sequence
\* of its components, a component the sequence of its characters.
\* str.lower() on the characters the names below are made of
Lower(c) ==
    IF c = "T" THEN "t"
    ELSE IF c = "E" THEN "e"
    ELSE IF c = "S" THEN "s"
    ELSE c

LowerAll(s) == [i \in DOMAIN s |-> Lower(s[i])]

\* sub in s
Contains(s, sub) ==
    \E k \in 0..(Len(s) - Len(sub)) : SubSeq(s, k + 1, k + Len(sub)) = sub

\* s.endswith(suffix)
EndsWith(s, suffix) ==
    /\ Len(suffix) <= Len(s)
    /\ SubSeq(s, Len(s) - Len(suffix) + 1, Len(s)) = suffix

\* os.path.basename(filename)
Basename(path) == path[Len(path)]

\* Variant: "test" looked for in every component of the path
SkippedByAnyComponent(path) ==
    \/ \E k \in DOMAIN path : Contains(LowerAll(path[k]), <<"t", "e", "s", "t">>)
    \/ ~EndsWith(Basename(path), <<".", "p", "y">>)

\* line 118: test files and non-Python files are passed over
Skipped(path) ==
    \/ Contains(LowerAll(Basename(path)), <<"t", "e", "s", "t">>)
    \/ ~EndsWith(Basename(path), <<".", "p", "y">>)

\* pkg/f1.py
F1Py == <<<<"p", "k", "g">>, <<"f", "1", ".", "p", "y">>>>

\* tests/f2.py
TestsF2Py == <<<<"t", "e", "s", "t", "s">>, <<"f", "2", ".", "p", "y">>>>

\* pkg/f3.py
F3Py == <<<<"p", "k", "g">>, <<"f", "3", ".", "p", "y">>>>

\* pkg/test_f.py
TestFPy == <<<<"p", "k", "g">>, <<"t", "e", "s", "t", "_", "f", ".", "p", "y">>>>

\* pkg/conTEST.py
ConTestPy == <<<<"p", "k", "g">>, <<"c", "o", "n", "T", "E", "S", "T", ".", "p", "y">>>>

\* pkg/f4.txt
F4Txt == <<<<"p", "k", "g">>, <<"f", "4", ".", "t", "x", "t">>>>

\* A one-line function of complexity 5 at line 1
OneFunction ==
    [tree |-> <<[kind |-> "FunctionDef", name |-> Identifiers[1],
                 lineno |-> 1, end_lineno |-> 1]>>,
     cc_nodes |-> <<[lineno |-> Some(1), complexity |-> Some(5)]>>]

\* What a measured file holds when the report is made, and the lines
\* data.lines() gives for it (Missing for None)
MeasuredFile(name, d, lines) ==
    [name |-> name, disk |-> d,
     tree |-> IF d = "readable" THEN OneFunction.tree ELSE <<>>,
     cc_nodes |-> IF d = "readable" THEN OneFunction.cc_nodes ELSE <<>>,
     lines |-> lines]

\* The measured files: pkg/f1.py may fail to parse, tests/f2.py may be gone,
\* the coverage data knows no lines of pkg/f3.py, and pkg/test_f.py does not
\* parse
MeasuredFiles ==
    {MeasuredFile(F1Py, d, Some({1})) : d \in {"readable", "unparsable"}}
    \cup {MeasuredFile(TestsF2Py, d, Some({1})) : d \in {"readable", "missing"}}
    \cup {MeasuredFile(F3Py, "readable", Missing),
          MeasuredFile(TestFPy, "unparsable", Some({1})),
          MeasuredFile(ConTestPy, "readable", Some({1})),
          MeasuredFile(F4Txt, "readable", Some({1}))}

\* The keys of file_lines are distinct
RECURSIVE MeasuredOfLen(_)
MeasuredOfLen(n) ==
    IF n = 0 THEN {<<>>}
    ELSE UNION {{Append(fs, f) :
                    f \in {g \in MeasuredFiles :
                              \A k \in DOMAIN fs : fs[k].name # g.name}} :
                fs \in MeasuredOfLen(n - 1)}

MeasuredLists == UNION {MeasuredOfLen(n) : n \in 0..MaxFiles}

\* The render operations that can fail while printing
Faults == {Missing, Some(FunctionTitle), Some(FileTitle), Some(FolderTitle)}

\* config: _pytest_crap_enabled, how much of the chain plugin -> controller
\* -> coverage object exists, option.verbose, --crap-top-n, --crap-threshold.
\* A hook that returns before reading the options is given the defaults.
PluginConfigs ==
    {[enabled |-> FALSE, cov |-> "ready", verbose |-> 0,
      top_n |-> DefaultTopN, threshold |-> HighCrap]}
    \cup {[enabled |-> TRUE, cov |-> c, verbose |-> 0,
           top_n |-> DefaultTopN, threshold |-> HighCrap] :
            c \in {"no_plugin", "no_controller", "no_object"}}
    \cup {[enabled |-> TRUE, cov |-> "ready", verbose |-> v,
           top_n |-> o[1], threshold |-> o[2]] :
            v \in 0..1, o \in {<<DefaultTopN, HighCrap>>, <<1, MediumCrap>>}}

Ready(c) == c.enabled /\ c.cov = "ready"

\* tr.write_line / tr.write_sep: the text, and the file and exception a
\* message is about
Line(text) == [kind |-> "line", text |-> text, file |-> <<>>, error |-> ""]

Sep(text) == [kind |-> "sep", text |-> text, file |-> <<>>, error |-> ""]

CouldNotParse(name, exc) ==
    [kind |-> "line", text |-> "pytest-crap: could not parse", file |-> name,
     error |-> exc]

RunHint == Line("  Make sure to run with: pytest --cov=<package> --crap")

\* lines 143-150: the outer handler
FailureReport(exc, verbose) ==
    <<Line(""),
      [kind |-> "sep", text |-> "pytest-crap: failed to generate CRAP report",
       file |-> <<>>, error |-> exc]>>
    \o (IF verbose > 0 THEN <<Line("traceback")>> ELSE <<>>)

\* line 100-101: set(data.lines(filename) or [])
CoveredSet(lines) == IF lines = Missing THEN {} ELSE lines[1]

\* Variant: per-file errors written at every verbosity
ShowsErrorAlways(verbose) == TRUE

\* line 125: only show parse errors in verbose mode
ShowsError(verbose) == verbose > 0

\* Variant: only parse errors contained per file
CaughtPerFileParseOnly(exc) == exc = "SyntaxError"

\* line 123: except Exception, which FileNotFoundError and SyntaxError are
CaughtPerFile(exc) == TRUE

\* lines 116-126: the loop over file_lines.  acc carries all_scores, the
\* files handed to calculate_crap, the lines written and the exception that
\* ended the loop, if any.
RECURSIVE ScoreFiles(_, _, _)
ScoreFiles(files, verbose, acc) ==
    IF files = <<>> THEN acc
    ELSE LET f == Head(files)
             exc == CalcFailure(f.disk)
         IN  IF Skipped(f.name) THEN ScoreFiles(Tail(files), verbose, acc)
             ELSE IF exc = Missing
             THEN ScoreFiles(Tail(files), verbose,
                    [acc EXCEPT
                        !.scored = Append(@, f.name),
                        !.all_scores = @ \o calculate_crap(f.name, f.tree, f.cc_nodes,
                                                           CoveredSet(f.lines))])
             ELSE IF CaughtPerFile(exc[1])
             THEN ScoreFiles(Tail(files), verbose,
                    [acc EXCEPT
                        !.scored = Append(@, f.name),
                        !.tr = IF ShowsError(verbose)
                               THEN Append(@, CouldNotParse(f.name, exc[1]))
                               ELSE @])
             ELSE [acc EXCEPT !.scored = Append(@, f.name), !.exc = exc]

\* Variant: no handler around the report
CaughtByHookNever(exc) == FALSE

\* line 143: except Exception around the whole report
CaughtByHook(exc) == TRUE

\* Variant: the tables rendered even without scores
NothingToRenderNever(all) == FALSE

\* line 128: if not all_scores
NothingToRender(all) == all = <<>>

\* Variant: the default passed whatever the option says
OptionTopNDefault(c) == DefaultTopN

\* line 133: config.getoption("--crap-top-n")
OptionTopN(c) == c.top_n

\* line 134: float(config.getoption("--crap-threshold"))
OptionThreshold(c) == RatOf(c.threshold)

\* An exception exc reaches the end of the try block after the lines
\* written were written: the handler reports it, or it leaves the hook
HookFails(exc, written) ==
    /\ IF CaughtByHook(exc)
       THEN /\ tr' = written \o FailureReport(exc, config.verbose)
            /\ escaped' = Missing
       ELSE /\ tr' = written
            /\ escaped' = Some(exc)
    /\ position' = "returned"

PluginInit ==
    /\ position = "hook"
    /\ config \in PluginConfigs
    /\ measured \in MeasuredLists
    /\ fault \in (IF Ready(config) THEN Faults ELSE {Missing})
    /\ exitstatus \in {0, 1}
    /\ all_scores = <<>>
    /\ scored = <<>>
    /\ tr = <<>>
    /\ calls = <<>>
    /\ escaped = Missing
    /\ CalcIdle
    /\ ReportIdle

\* The hook returns after writing lines, without scores to render
ReturnWith(lines) ==
    /\ tr' = tr \o lines
    /\ position' = "returned"
    /\ escaped' = Missing
    /\ UNCHANGED <<all_scores, scored>>
    /\ UNCHANGED reportVars

\* pytest_terminal_summary lines 65-137: the checks, the scoring loop and
\* the options; the hook returns here or goes on to the three tables
TerminalSummary ==
    /\ position = "hook"
    /\ IF ~config.enabled THEN ReturnWith(<<>>)
       ELSE IF config.cov = "no_plugin"
       THEN ReturnWith(<<Line(""),
                         Sep("pytest-crap: pytest-cov plugin not found; skipping CRAP report"),
                         RunHint>>)
       ELSE IF config.cov = "no_controller"
       THEN ReturnWith(<<Line(""),
                         Sep("pytest-crap: coverage controller not initialized; skipping CRAP report"),
                         RunHint>>)
       ELSE IF config.cov = "no_object"
       THEN ReturnWith(<<Line(""),
                         Sep("pytest-crap: coverage object not found; skipping CRAP report")>>)
       ELSE IF measured = <<>>
       THEN ReturnWith(<<Line(""), Sep("pytest-crap: no coverage data found")>>)
       ELSE LET loop == ScoreFiles(measured, config.verbose,
                                   [all_scores |-> <<>>, scored |-> <<>>,
                                    tr |-> tr, exc |-> Missing])
            IN  /\ all_scores' = loop.all_scores
                /\ scored' = loop.scored
                /\ IF loop.exc # Missing
                   THEN /\ HookFails(loop.exc[1], loop.tr)
                        /\ UNCHANGED reportVars
                   ELSE IF NothingToRender(loop.all_scores)
                   THEN /\ tr' = loop.tr \o
                                 <<Line(""),
                                   Sep("pytest-crap: no functions found to analyze")>>
                        /\ position' = "returned"
                        /\ escaped' = Missing
                        /\ UNCHANGED reportVars
                   ELSE /\ tr' = Append(loop.tr, Line(""))
                        /\ position' = "render_function"
                        /\ escaped' = Missing
                        /\ scores' = loop.all_scores
                        /\ top_n' = Some(OptionTopN(config))
                        /\ threshold' = OptionThreshold(config)
                        /\ UNCHANGED <<ranking, console, raised>>
    /\ calls' = calls
    /\ UNCHANGED <<config, measured, fault, exitstatus>>
    /\ UNCHANGED calcVars

\* One of lines 139-141: the render operation op is invoked on the arguments
\* prepared; it prints its table, or raises and the outer handler reports it
RenderStep(op, body, next, thr) ==
    /\ calls' = Append(calls, [op |-> op, scores |-> scores, top_n |-> top_n,
                               threshold |-> thr])
    /\ IF fault = Some(op)
       THEN /\ raised' = Some("Exception")
            /\ HookFails("Exception", tr)
            /\ UNCHANGED <<scores, ranking, console>>
       ELSE /\ body
            /\ IF raised' = Missing
               THEN /\ position' = next
                    /\ escaped' = Missing
                    /\ UNCHANGED tr
               ELSE HookFails(raised'[1], tr)
    /\ all_scores' = scores'
    /\ UNCHANGED <<top_n, threshold>>
    /\ UNCHANGED <<config, measured, fault, exitstatus, scored>>
    /\ UNCHANGED calcVars

\* line 139
PluginRenderFunctionTable ==
    /\ position = "render_function"
    /\ RenderStep(FunctionTitle, FunctionTableCall, "render_file", Missing)

\* line 140
PluginRenderFileSummary ==
    /\ position = "render_file"
    /\ RenderStep(FileTitle, FileSummaryCall, "render_folder", Some(threshold))

\* line 141
PluginRenderFolderSummary ==
    /\ position = "render_folder"
    /\ RenderStep(FolderTitle, FolderSummaryCall, "returned", Some(threshold))

PluginNext ==
    \/ TerminalSummary
    \/ PluginRenderFunctionTable
    \/ PluginRenderFileSummary
    \/ PluginRenderFolderSummary

SpecPlugin == PluginInit /\ [][PluginNext]_vars

(***************************************************************************)
(* Properties of calculate_crap (SpecCalc).                                *)
(***************************************************************************)
Done == pc = "done"

Cube(x) == x * x * x

RangeOf(s) == s.start_line..s.end_line

FullyCovered(s) == \A ln \in RangeOf(s) : ln \in covered_lines

\* C1: every emitted score has crap = cc^2 * (1 - coverage_percent/100)^3 + cc,
\* with cc and coverage_percent the values stored in the same score.  With
\* u = 1 - coverage_percent/100 in lowest terms, that is
\* crap.n * u.d^3 = crap.d * (cc^2 * u.n^3 + cc * u.d^3).
C1_CrapFormula ==
    Done =>
        \A i \in 1..Len(out) :
            LET s == out[i]
                p == s.coverage_percent
                u == Rat(100 * p.d - p.n, 100 * p.d)
            IN  s.crap.n * Cube(u.d)
                    = s.crap.d * (s.cc * s.cc * Cube(u.n) + s.cc * Cube(u.d))

\* A function with a third of its lines covered and cc = 2 scores 86/27.
C1_Witness ==
    /\ Done
    /\ \E i \in 1..Len(out) :
          /\ out[i].cc = 2
          /\ out[i].coverage_percent = [n |-> 100, d |-> 3]
          /\ out[i].crap = [n |-> 86, d |-> 27]

\* C2: coverage_percent = 100 * covered / total_lines, with total_lines =
\* max(1, end_line - start_line + 1) and covered the number of lines of
\* [start_line, end_line] in covered_lines; the covered lines outside the
\* range do not matter: dropping them all, or covering every line outside,
\* gives the same percentage.
C2_CoveragePercent ==
    Done =>
        \A i \in 1..Len(out) :
            LET s == out[i]
                total == Max(1, s.end_line - s.start_line + 1)
                covered == Cardinality(RangeOf(s) \cap covered_lines)
            IN  /\ s.coverage_percent.n * total = 100 * covered * s.coverage_percent.d
                /\ CoveragePercent(funcs[i], covered_lines \cap RangeOf(s))
                        = s.coverage_percent
                /\ CoveragePercent(funcs[i], covered_lines \cup (Lines \ RangeOf(s)))
                        = s.coverage_percent

C2_Witness ==
    /\ Done
    /\ \E i \in 1..Len(out) :
          /\ covered_lines \ RangeOf(out[i]) # {}
          /\ covered_lines \cap RangeOf(out[i]) # {}
          /\ ~FullyCovered(out[i])

\* C3: a function whose every line is covered has coverage_percent 100 and
\* crap equal to its cc.
C3_FullCoverage ==
    Done =>
        \A i \in 1..Len(out) :
            FullyCovered(out[i]) =>
                /\ out[i].coverage_percent = RatOf(100)
                /\ out[i].crap = RatOf(out[i].cc)

C3_Witness ==
    /\ Done
    /\ \E i \in 1..Len(out) :
          /\ FullyCovered(out[i])
          /\ out[i].end_line > out[i].start_line
          /\ out[i].cc = MaxCC
          /\ out[i].crap = RatOf(MaxCC)

\* C4: for the same function ranges and the same complexities, a covered-line
\* set A that is a subset of covered_lines gives every function a crap at
\* least as large as covered_lines does.
C4_Monotone ==
    Done =>
        \A A \in SUBSET covered_lines :
            LET fewer == ScoreAll(funcs, file_path, A, cc_by_start)
            IN  \A i \in 1..Len(out) : RatLeq(out[i].crap, fewer[i].crap)

C4_Witness ==
    /\ Done
    /\ \E A \in SUBSET covered_lines :
          \E i \in 1..Len(out) :
              RatLt(out[i].crap, ScoreAll(funcs, file_path, A, cc_by_start)[i].crap)

CompleteBlocks ==
    {k \in DOMAIN cc_nodes :
        cc_nodes[k].lineno # Missing /\ cc_nodes[k].complexity # Missing}

\* C5: blocks lacking a line or a complexity are left out of the start-line
\* mapping, and a function whose start line is not in the mapping is still
\* scored, with cc = 0 and crap = 0.
C5_MissingComplexity ==
    Done =>
        /\ DOMAIN cc_by_start = {cc_nodes[k].lineno[1] : k \in CompleteBlocks}
        /\ Len(out) = Len(map_functions(tree))
        /\ \A i \in 1..Len(out) :
              out[i].start_line \notin DOMAIN cc_by_start =>
                  /\ out[i].cc = 0
                  /\ out[i].crap = RatOf(0)

\* An uncovered function whose block carries its line but no complexity.
C5_Witness ==
    /\ Done
    /\ \E i \in 1..Len(out) :
          /\ \E k \in DOMAIN cc_nodes :
                /\ cc_nodes[k].lineno = Some(out[i].start_line)
                /\ cc_nodes[k].complexity = Missing
          /\ covered_lines \cap RangeOf(out[i]) = {}
          /\ out[i].crap = RatOf(0)

\* C6: one score per function range of the mapper, in the mapper's order, the
\* i-th score carrying the i-th range's name, start_line and end_line and the
\* file_path passed in.
C6_OnePerFunction ==
    Done =>
        LET ranges == map_functions(tree)
        IN  /\ Len(out) = Len(ranges)
            /\ \A i \in 1..Len(out) :
                  /\ out[i].name = ranges[i].name
                  /\ out[i].start_line = ranges[i].start_line
                  /\ out[i].end_line = ranges[i].end_line
                  /\ out[i].file_path = file_path

\* Two functions below a class: three definitions, two scores.
C6_Witness ==
    /\ Done
    /\ Len(out) >= 2
    /\ out[1].name # out[2].name
    /\ out[1].start_line < out[2].start_line

\* C7: 0 <= coverage_percent <= 100 and cc <= crap <= cc^2 + cc (so crap >= 0)
\* in every score.
C7_Ranges ==
    Done =>
        \A i \in 1..Len(out) :
            LET s == out[i]
            IN  /\ RatLeq(RatOf(0), s.coverage_percent)
                /\ RatLeq(s.coverage_percent, RatOf(100))
                /\ s.cc >= 0
                /\ RatLeq(RatOf(0), s.crap)
                /\ RatLeq(RatOf(s.cc), s.crap)
                /\ RatLeq(s.crap, RatOf(s.cc * s.cc + s.cc))

C7_Witness ==
    /\ Done
    /\ \E i \in 1..Len(out) :
          LET s == out[i]
          IN  /\ RatLt(RatOf(0), s.coverage_percent)
              /\ RatLt(s.coverage_percent, RatOf(100))
              /\ RatLt(RatOf(s.cc), s.crap)
              /\ RatLt(s.crap, RatOf(s.cc * s.cc + s.cc))


(***************************************************************************)
(* Properties of the reporter's rankings (SpecReport).                     *)
(***************************************************************************)
Range(seq) == {seq[i] : i \in DOMAIN seq}

Occurrences(seq, x) == Cardinality({i \in DOMAIN seq : seq[i] = x})

IsPermutation(a, b) ==
    /\ Len(a) = Len(b)
    /\ \A x \in Range(a) \cup Range(b) : Occurrences(a, x) = Occurrences(b, x)

\* The value a ranking is sorted by: crap of a score, max_crap of a summary
RankValue(entry) ==
    IF "max_crap" \in DOMAIN entry THEN entry.max_crap ELSE entry.crap

NonIncreasing(seq) ==
    \A i, j \in DOMAIN seq : i < j => RatLeq(RankValue(seq[j]), RankValue(seq[i]))

Rendered == console.title # ""

\* The ranking of the table last printed, had top_n been n
RankingWith(n) ==
    IF console.title = FunctionTitle THEN FunctionRanking(scores, n)
    ELSE IF console.title = FileTitle THEN FileRanking(scores, n, threshold)
    ELSE FolderRanking(scores, n, threshold)

\* The number of entries of the table last printed before any cut: scores,
\* distinct files, distinct parent folders
EntryCount ==
    IF console.title = FunctionTitle THEN Len(scores)
    ELSE IF console.title = FileTitle
         THEN Cardinality({scores[i].file_path : i \in DOMAIN scores})
    ELSE Cardinality({ParentDir(scores[i].file_path) : i \in DOMAIN scores})

\* C8: with top_n = 0 the function ranking is a permutation of the input
\* scores, one printed row per score, in non-increasing order of crap.
C8_FullFunctionRanking ==
    (console.title = FunctionTitle /\ top_n = Some(0)) =>
        /\ IsPermutation(ranking, scores)
        /\ Len(console.rows) = Len(scores)
        /\ NonIncreasing(ranking)

\* Three scores that the ranking had to reorder.
C8_Witness ==
    /\ console.title = FunctionTitle
    /\ top_n = Some(0)
    /\ Len(scores) = MaxScores
    /\ ranking # scores
    /\ RatLt(ranking[Len(ranking)].crap, ranking[1].crap)

\* C9: with top_n > 0 each of the three rankings is the first min(top_n, N)
\* entries of the full descending ranking of N entries, so that every entry
\* kept has a value >= every entry dropped.
C9_TopNPrefix ==
    (Rendered /\ top_n # Missing /\ TopNArg(top_n) > 0) =>
        LET full == RankingWith(0)
            kept == Min(TopNArg(top_n), Len(full))
        IN  /\ Len(full) = EntryCount
            /\ NonIncreasing(full)
            /\ ranking = SubSeq(full, 1, kept)
            /\ Len(console.rows) = kept
            /\ \A i \in 1..kept : \A j \in (kept + 1)..Len(full) :
                  RatLeq(RankValue(full[j]), RankValue(ranking[i]))

\* A folder ranking cut to its first entry, for scores whose function and
\* file rankings are cut by the same top_n as well.
C9_Witness ==
    /\ console.title = FolderTitle
    /\ top_n = Some(1)
    /\ Len(ranking) = 1
    /\ Len(FolderRanking(scores, 0, threshold)) > 1
    /\ RatLt(FolderRanking(scores, 0, threshold)[2].max_crap, ranking[1].max_crap)
    /\ Len(FileRanking(scores, 1, threshold)) < Len(FileRanking(scores, 0, threshold))
    /\ Len(FunctionRanking(scores, 1)) < Len(scores)

\* C10 as stated: with top_n = 0, or with no top_n passed, every entry of
\* the ranking is shown.
C10_NoLimitZeroOrUnset ==
    (Rendered /\ (top_n = Some(0) \/ top_n = Missing)) =>
        /\ Len(ranking) = EntryCount
        /\ Len(console.rows) = EntryCount

\* C10 amended: with top_n = 0 every entry of the ranking is shown; with no
\* top_n passed the default of 20 applies and the first min(20, N) entries
\* of the full ranking are shown.
C10_NoLimitZero ==
    /\ (Rendered /\ top_n = Some(0)) =>
          /\ Len(ranking) = EntryCount
          /\ Len(console.rows) = EntryCount
    /\ (Rendered /\ top_n = Missing) =>
          /\ ranking = SubSeq(RankingWith(0), 1, Min(DefaultTopN, EntryCount))
          /\ Len(console.rows) = Min(DefaultTopN, EntryCount)

\* More than 20 scores, all shown with top_n = 0.
C10_Witness ==
    /\ console.title = FunctionTitle
    /\ top_n = Some(0)
    /\ Len(scores) > DefaultTopN
    /\ Len(console.rows) = Len(scores)

\* The folder of a path: all its components but the last
FolderOf(path) == SubSeq(path, 1, Len(path) - 1)

\* The scores a ranking entry stands for: the score itself in the function
\* table, the scores of the file or of the folder in the summaries
MembersOf(entry) ==
    IF console.title = FunctionTitle THEN {i \in DOMAIN scores : scores[i] = entry}
    ELSE IF console.title = FileTitle
         THEN {i \in DOMAIN scores : scores[i].file_path = entry.file}
    ELSE {i \in DOMAIN scores : FolderOf(scores[i].file_path) = entry.file}

\* Where the first score of a ranking entry stands in the input
InputPlace(entry) ==
    CHOOSE i \in MembersOf(entry) : \A j \in MembersOf(entry) : i <= j

\* C11: entries of equal value keep their input order: equal-crap scores in
\* the function ranking stand in input order, file and folder groups of
\* equal max_crap in the order their first members appear in the input.
C11_StableRanking ==
    Rendered =>
        \A i, j \in DOMAIN ranking :
            (i < j /\ RankValue(ranking[i]) = RankValue(ranking[j])) =>
                /\ MembersOf(ranking[i]) # {}
                /\ MembersOf(ranking[j]) # {}
                /\ InputPlace(ranking[i]) < InputPlace(ranking[j])

\* Two files of equal max_crap, ranked behind a file whose scores come later
\* in the input.
C11_Witness ==
    /\ console.title = FileTitle
    /\ top_n = Some(0)
    /\ Len(ranking) = 3
    /\ RatLt(ranking[2].max_crap, ranking[1].max_crap)
    /\ ranking[2].max_crap = ranking[3].max_crap
    /\ InputPlace(ranking[1]) > InputPlace(ranking[3])
    /\ \E i, j \in DOMAIN scores : i < j /\ scores[i].crap = scores[j].crap

\* The scores whose file_path is p
ScoresOfFile(p) == {i \in DOMAIN scores : scores[i].file_path = p}

\* The scores whose file lies directly in folder d
ScoresOfFolder(d) == {i \in DOMAIN scores : FolderOf(scores[i].file_path) = d}

\* v is the largest crap among the scores S
IsMaxCrap(v, S) ==
    /\ \E i \in S : scores[i].crap = v
    /\ \A i \in S : RatLeq(scores[i].crap, v)

\* C12: with top_n = 0 the file summary has exactly one summary per distinct
\* file_path, so that every score belongs to exactly one group; each
\* summary's max_crap is the maximum crap of the scores with that file_path,
\* and the summaries stand in non-increasing order of max_crap.
C12_FileGrouping ==
    (console.title = FileTitle /\ top_n = Some(0)) =>
        /\ {ranking[g].file : g \in DOMAIN ranking}
              = {scores[i].file_path : i \in DOMAIN scores}
        /\ \A g, h \in DOMAIN ranking : ranking[g].file = ranking[h].file => g = h
        /\ \A i \in DOMAIN scores :
              Cardinality({g \in DOMAIN ranking : ranking[g].file = scores[i].file_path}) = 1
        /\ \A g \in DOMAIN ranking :
              IsMaxCrap(ranking[g].max_crap, ScoresOfFile(ranking[g].file))
        /\ NonIncreasing(ranking)

\* Three scores in two files: the file with two scores of different crap
\* carries the larger of them.
C12_Witness ==
    /\ console.title = FileTitle
    /\ top_n = Some(0)
    /\ Len(scores) = 3
    /\ Len(ranking) = 2
    /\ \E g \in DOMAIN ranking :
          /\ Cardinality(ScoresOfFile(ranking[g].file)) = 2
          /\ \E i \in ScoresOfFile(ranking[g].file) :
                RatLt(scores[i].crap, ranking[g].max_crap)

\* C13: in every file and folder summary count_above_threshold is the number
\* of the group's functions with crap >= threshold; a function whose crap
\* equals the threshold is counted.
C13_CountInclusive ==
    /\ console.title = FileTitle =>
          \A g \in DOMAIN ranking :
              ranking[g].count_above =
                  Cardinality({i \in ScoresOfFile(ranking[g].file) :
                                  ~RatLt(scores[i].crap, threshold)})
    /\ console.title = FolderTitle =>
          \A g \in DOMAIN ranking :
              ranking[g].count_above =
                  Cardinality({i \in ScoresOfFolder(ranking[g].file) :
                                  ~RatLt(scores[i].crap, threshold)})

\* One file with a score below, one at and one above the threshold of 30:
\* the count is 2.
C13_Witness ==
    /\ console.title = FileTitle
    /\ threshold = RatOf(30)
    /\ Len(scores) = 3
    /\ Len(ranking) = 1
    /\ \E i \in DOMAIN scores : RatLt(scores[i].crap, threshold)
    /\ \E i \in DOMAIN scores : scores[i].crap = threshold
    /\ \E i \in DOMAIN scores : RatLt(threshold, scores[i].crap)
    /\ ranking[1].count_above = 2

\* C14: the folder summary groups the scores by the immediate parent
\* directory of file_path: with top_n = 0 there is one summary per distinct
\* parent directory, two scores share a group iff their parents are equal,
\* and max_crap, ordering and truncation are those of the file grouping.
C14_FolderGrouping ==
    console.title = FolderTitle =>
        /\ \A g, h \in DOMAIN ranking : ranking[g].file = ranking[h].file => g = h
        /\ \A g \in DOMAIN ranking :
              /\ ScoresOfFolder(ranking[g].file) # {}
              /\ IsMaxCrap(ranking[g].max_crap, ScoresOfFolder(ranking[g].file))
        /\ NonIncreasing(ranking)
        /\ top_n = Some(0) =>
              {ranking[g].file : g \in DOMAIN ranking}
                  = {FolderOf(scores[i].file_path) : i \in DOMAIN scores}
        /\ (top_n # Missing /\ top_n # Some(0) /\ top_n[1] > 0) =>
              Len(ranking) =
                  Min(top_n[1],
                      Cardinality({FolderOf(scores[i].file_path) : i \in DOMAIN scores}))

\* pkg/sub/f2.py and pkg/f1.py make the two groups pkg/sub and pkg.
C14_Witness ==
    /\ console.title = FolderTitle
    /\ top_n = Some(0)
    /\ \E i, j \in DOMAIN scores :
          /\ scores[i].file_path = <<"pkg", "sub", "f2.py">>
          /\ scores[j].file_path = <<"pkg", "f1.py">>
    /\ {ranking[g].file : g \in DOMAIN ranking} = {<<"pkg", "sub">>, <<"pkg">>}

\* The severity of a value, against the fixed limits 30 and 15
SeverityOf(v) ==
    IF v.n > 30 * v.d THEN "red"
    ELSE IF v.n > 15 * v.d THEN "yellow"
    ELSE "green"

\* C17: the colour of every printed value follows the fixed limits, whatever
\* the configured threshold: above 30 red, above 15 up to 30 yellow, up to 15
\* green; exactly 15 is green and exactly 30 is yellow.
C17_FixedSeverity ==
    Rendered =>
        /\ Len(console.rows) = Len(ranking)
        /\ \A i \in DOMAIN console.rows :
              console.rows[i].crap.color = SeverityOf(RankValue(ranking[i]))

\* A function table showing 35 red, 30 yellow and 15 green while the
\* configured threshold is 15.
C17_Witness ==
    /\ console.title = FunctionTitle
    /\ threshold = RatOf(15)
    /\ Len(ranking) = 3
    /\ ranking[1].crap = RatOf(35) /\ console.rows[1].crap.color = "red"
    /\ ranking[2].crap = RatOf(30) /\ console.rows[2].crap.color = "yellow"
    /\ ranking[3].crap = RatOf(15) /\ console.rows[3].crap.color = "green"

\* How a value compares with the configured threshold
AgainstThreshold(v) ==
    IF RatLt(v, threshold) THEN "below"
    ELSE IF v = threshold THEN "at"
    ELSE "above"

\* C18: the colour given to a value in the rendered tables is decided by
\* comparing the value with the configured threshold: two printed values
\* that compare alike with the threshold are coloured alike.
C18_ThresholdDecidesColor ==
    Rendered =>
        \A i, j \in DOMAIN console.rows :
            AgainstThreshold(RankValue(ranking[i])) = AgainstThreshold(RankValue(ranking[j]))
                => console.rows[i].crap.color = console.rows[j].crap.color

\* C15: on an empty and on a one-element score list each of the three
\* renderings completes without raising, whatever top_n and threshold; the
\* empty list gives empty rankings and no rows.
C15_NeverRaises ==
    Len(scores) <= 1 =>
        /\ raised = Missing
        /\ (Rendered /\ scores = <<>>) => (ranking = <<>> /\ console.rows = <<>>)

\* A file summary of a one-element list: printed, one summary, no exception.
C15_Witness ==
    /\ console.title = FileTitle
    /\ Len(scores) = 1
    /\ top_n = Some(0)
    /\ Len(ranking) = 1
    /\ ranking[1].max_crap = scores[1].crap
    /\ raised = Missing

\* What the call that printed the table titled t returns on the present
\* arguments
FreshResult(t) ==
    IF t = FunctionTitle THEN FunctionRanking(scores, TopNArg(top_n))
    ELSE IF t = FileTitle THEN FileRanking(scores, TopNArg(top_n), threshold)
    ELSE FolderRanking(scores, TopNArg(top_n), threshold)

\* C16: no rendering changes the score list it is given (same elements, same
\* order, same fields), and whatever was rendered before, a call's result is
\* the one its own arguments give.
C16_NoMutationNoCarriedState ==
    [][/\ scores' = scores
       /\ ranking' = FreshResult(console'.title)]_vars

\* A folder summary printed over a list that is not in ranking order, after
\* which the list is still as it was given.
C16_Witness ==
    /\ console.title = FolderTitle
    /\ Len(scores) = 3
    /\ RatLt(scores[1].crap, scores[2].crap)
    /\ RatLt(scores[3].crap, scores[2].crap)
    /\ Len(ranking) = 2
    /\ scores \in ScoreLists

Mapped == pc = "mapped"

\* The definition of the file a reported function was made from
NodeOf(fdef) == CHOOSE i \in 1..Len(tree) : tree[i].name = fdef.name

\* C19: for every function the mapper reports, is_method is true iff the
\* function's direct lexical parent is a class body; a function nested in a
\* method and a module-level function after a class have is_method false.
C19_MethodIffParentIsClass ==
    Mapped =>
        \A k \in DOMAIN funcs :
            LET parent == ParentOf(tree, NodeOf(funcs[k]))
            IN  funcs[k].is_method <=> (parent # 0 /\ tree[parent].kind = "ClassDef")

\* The function definitions of the file, in source order
FunctionNodes == Ascending({i \in 1..Len(tree) : tree[i].kind # "ClassDef"})

\* C20: the mapper returns one entry per function definition, plain or
\* async, whatever it is nested in, in source order: an enclosing function
\* before the functions nested in it, these before its later siblings; a
\* file without function definitions gives the empty list.
C20_OneEntryPerDefinition ==
    Mapped =>
        /\ Len(funcs) = Len(FunctionNodes)
        /\ \A k \in DOMAIN funcs :
              LET node == tree[FunctionNodes[k]]
              IN  /\ funcs[k].name = node.name
                  /\ funcs[k].start_line = node.lineno
                  /\ funcs[k].end_line = node.end_lineno
                  /\ funcs[k].is_async = (node.kind = "AsyncFunctionDef")
        /\ \A k, l \in DOMAIN funcs : k < l => funcs[k].start_line < funcs[l].start_line
        /\ (\A i \in 1..Len(tree) : tree[i].kind = "ClassDef") => funcs = <<>>

\* A function holding a nested async function, followed by a sibling: three
\* entries, the enclosing one first, the sibling last.
C20_Witness ==
    /\ Mapped
    /\ Len(tree) = 3
    /\ tree[1].kind = "FunctionDef"
    /\ tree[2].kind = "AsyncFunctionDef"
    /\ ParentOf(tree, 2) = 1
    /\ ParentOf(tree, 3) = 0
    /\ tree[3].kind = "FunctionDef"
    /\ Len(funcs) = 3
    /\ funcs[2].is_async
    /\ funcs[3].name = tree[3].name

\* The sum of the count column of a list of summaries
RECURSIVE CountSum(_)
CountSum(summaries) ==
    IF summaries = <<>> THEN 0
    ELSE Head(summaries).count_above + CountSum(Tail(summaries))

\* C29: with top_n = 0 and one threshold the folder table agrees with the
\* file table: a folder's max_crap is the largest max_crap of the files
\* directly in it and its count the sum of their counts; the largest value of
\* the file table, of the folder table and the first row of the function
\* table are equal, and the counts of the file table and of the folder table
\* each sum to the number of scores with crap >= threshold.
C29_FolderRollsUpFiles ==
    (console.title = FolderTitle /\ top_n = Some(0)) =>
        LET files == FileRanking(scores, 0, threshold)
            functions == FunctionRanking(scores, 0)
            InFolder(d) == {f \in DOMAIN files : FolderOf(files[f].file) = d}
            FileCounts(d) == [p \in 1..Cardinality(InFolder(d)) |->
                                files[Ascending(InFolder(d))[p]]]
        IN  /\ \A g \in DOMAIN ranking :
                  /\ InFolder(ranking[g].file) # {}
                  /\ \E f \in InFolder(ranking[g].file) :
                        files[f].max_crap = ranking[g].max_crap
                  /\ \A f \in InFolder(ranking[g].file) :
                        RatLeq(files[f].max_crap, ranking[g].max_crap)
                  /\ ranking[g].count_above = CountSum(FileCounts(ranking[g].file))
            /\ scores # <<>> =>
                  /\ ranking[1].max_crap = files[1].max_crap
                  /\ ranking[1].max_crap = functions[1].crap
            /\ CountSum(ranking) = CountSum(files)
            /\ CountSum(ranking) =
                  Cardinality({i \in DOMAIN scores : ~RatLt(scores[i].crap, threshold)})

\* A folder holding two files of different max_crap, both counted, beside a
\* second folder.
C29_Witness ==
    /\ console.title = FolderTitle
    /\ top_n = Some(0)
    /\ Len(ranking) = 2
    /\ Len(FileRanking(scores, 0, threshold)) = 3
    /\ RatLt(FileRanking(scores, 0, threshold)[2].max_crap,
             FileRanking(scores, 0, threshold)[1].max_crap)
    /\ \E g \in DOMAIN ranking : ranking[g].count_above = 2
    /\ CountSum(ranking) = 3

\* C30: a negative top_n removes no entry: for top_n < 0 each of the three
\* rankings shows all its entries, as for top_n = 0.
C30_NegativeShowsAll ==
    (Rendered /\ top_n # Missing /\ TopNArg(top_n) < 0) =>
        /\ ranking = RankingWith(0)
        /\ Len(console.rows) = EntryCount

\* C21: map_functions ends with a parse error on a file that is not valid
\* source and with a not-found error on a path that cannot be read;
\* calculate_crap ends with the same failure and returns no score list.
C21_FailuresPropagate ==
    /\ (pc = "mapped" /\ disk = "unparsable") => failure = Some("SyntaxError")
    /\ (pc = "mapped" /\ disk = "missing") => failure = Some("FileNotFoundError")
    /\ (pc = "done" /\ disk = "unparsable") =>
          (failure = Some("SyntaxError") /\ out = <<>>)
    /\ (pc = "done" /\ disk = "missing") =>
          (failure = Some("FileNotFoundError") /\ out = <<>>)

\* calculate_crap has been called with covered lines on a file that does not
\* parse: the parse error reached the caller and there are no scores.
C21_Witness ==
    /\ pc = "done"
    /\ disk = "unparsable"
    /\ covered_lines = Lines
    /\ failure = Some("SyntaxError")
    /\ out = <<>>

\* C26: two calls of calculate_crap on the same file content with the same
\* covered lines return the same list of scores, field for field, whatever
\* was called in between.
C26_SameInputSameScores ==
    (Done /\ earlier # Missing /\ SameArguments(earlier[1])) =>
        /\ out = earlier[1].out
        /\ failure = earlier[1].failure

\* The remembered call and the present one have the same arguments and gave
\* scores, and a call with other arguments came between them.
C26_Witness ==
    /\ Done
    /\ earlier # Missing
    /\ SameArguments(earlier[1])
    /\ earlier[1].between
    /\ out # <<>>
    /\ out[1].cc > 0
    /\ out = earlier[1].out

(***************************************************************************)
(* Properties of pytest_terminal_summary (SpecPlugin).                     *)
(***************************************************************************)
\* The scoring loop is over
Collected == position # "hook" /\ Ready(config) /\ measured # <<>>

\* The measured files the policy passes to the scorer
SourceFiles == {F1Py, TestsF2Py, F3Py}

\* The measured file k is passed to the scorer and scoring it fails
FailsToScore(k) == measured[k].name \in SourceFiles /\ measured[k].disk # "readable"

\* What the files succeeding among the first k give, in file order
RECURSIVE ScoresUpTo(_)
ScoresUpTo(k) ==
    IF k = 0 THEN <<>>
    ELSE ScoresUpTo(k - 1) \o
         (IF measured[k].name \in SourceFiles /\ measured[k].disk = "readable"
          THEN calculate_crap(measured[k].name, measured[k].tree, measured[k].cc_nodes,
                              CoveredSet(measured[k].lines))
          ELSE <<>>)

\* C22: a file whose scoring fails is skipped alone: the files before and
\* after it are still scored, and the scores collected are those of the
\* files that succeeded, joined in file order.
C22_FailureContained ==
    Collected =>
        /\ all_scores = ScoresUpTo(Len(measured))
        /\ \A k \in DOMAIN measured :
              measured[k].name \in SourceFiles =>
                  \E c \in DOMAIN scored : scored[c] = measured[k].name
        /\ \A i \in DOMAIN tr : tr[i].text # "pytest-crap: failed to generate CRAP report"
              \/ fault # Missing

\* Three source files, the second gone from the disk: the scores of the
\* first and of the third, in that order.
C22_Witness ==
    /\ position = "returned"
    /\ Len(measured) = 3
    /\ measured[1].disk = "readable"
    /\ measured[2].disk = "missing"
    /\ measured[3].disk = "readable"
    /\ Len(all_scores) = 2
    /\ all_scores[1].file_path = measured[1].name
    /\ all_scores[2].file_path = measured[3].name
    /\ Len(calls) = 3

\* The terminal output names the measured file k
ReportedAsSkipped(k) ==
    \E i \in DOMAIN tr : tr[i].file = measured[k].name

\* C23 as stated: every measured file whose scoring raised is reported in
\* the terminal output, whatever the verbosity.
C23_EveryFailureReported ==
    Collected => \A k \in DOMAIN measured : FailsToScore(k) => ReportedAsSkipped(k)

\* C23: a measured file whose scoring raised is reported in the terminal
\* output, by a line naming it and its error, exactly when the verbosity is
\* above 0; at verbosity 0 the output does not mention it.
C23_FailureReportedWhenVerbose ==
    Collected =>
        \A k \in DOMAIN measured :
            FailsToScore(k) => (ReportedAsSkipped(k) <=> config.verbose > 0)

\* A verbose run over a file that does not parse and one that is gone: both
\* are named, each with its error.
C23_Witness ==
    /\ position = "returned"
    /\ config.verbose = 1
    /\ \E i, j \in DOMAIN tr :
          /\ i < j
          /\ tr[i].file = F1Py /\ tr[i].error = "SyntaxError"
          /\ tr[j].file = TestsF2Py /\ tr[j].error = "FileNotFoundError"

\* C25: a measured file is passed to the scorer iff its base name does not
\* contain "test" in any case and its path ends in ".py": pkg/f1.py,
\* tests/f2.py and pkg/f3.py are, pkg/test_f.py, pkg/conTEST.py and
\* pkg/f4.txt are not; a file passed over gives no score and no error.
C25_FileSelection ==
    Collected =>
        /\ \A k \in DOMAIN measured :
              (\E c \in DOMAIN scored : scored[c] = measured[k].name)
                  <=> measured[k].name \in SourceFiles
        /\ \A i \in DOMAIN all_scores : all_scores[i].file_path \in SourceFiles
        /\ \A i \in DOMAIN tr : tr[i].file # <<>> => tr[i].file \in SourceFiles

\* A verbose run over tests/f2.py, pkg/test_f.py (which does not parse) and
\* pkg/conTEST.py: only the first is scored, and nothing is said of the
\* others.
C25_Witness ==
    /\ position = "returned"
    /\ config.verbose = 1
    /\ Len(measured) = 3
    /\ {measured[k].name : k \in DOMAIN measured} = {TestsF2Py, TestFPy, ConTestPy}
    /\ scored = <<TestsF2Py>>
    /\ Len(all_scores) = 1
    /\ \A i \in DOMAIN tr : tr[i].file = <<>>

FailedToGenerate == "pytest-crap: failed to generate CRAP report"

\* C24: the report is advisory: no step of pytest_terminal_summary lets an
\* exception leave the hook or changes the exit status it was given,
\* whatever the configuration, the data and the failures while scoring or
\* rendering; a render operation that raises ends the hook with a 'failed
\* to generate CRAP report' message.
C24_Advisory ==
    [][/\ exitstatus' = exitstatus
       /\ escaped' = Missing
       /\ raised' # Missing =>
             /\ position' = "returned"
             /\ Len(tr') > Len(tr)
             /\ \E i \in (Len(tr) + 1)..Len(tr') :
                   tr'[i].kind = "sep" /\ tr'[i].text = FailedToGenerate]_vars

\* A run that began with exit status 1 and whose file summary raised after
\* the function table was printed: the hook has returned, the message is
\* written, nothing escaped.
C24_Witness ==
    /\ position = "returned"
    /\ exitstatus = 1
    /\ fault = Some(FileTitle)
    /\ raised # Missing
    /\ Len(calls) = 2
    /\ console.title = FunctionTitle
    /\ \E i \in DOMAIN tr : tr[i].text = FailedToGenerate
    /\ \E k \in DOMAIN measured : FailsToScore(k)
    /\ escaped = Missing

\* The notices written: the separator lines
Notices == {i \in DOMAIN tr : tr[i].kind = "sep"}

\* C27: the render operations are invoked only when reporting is enabled,
\* the coverage plugin, controller and object are present, a file was
\* measured and a score was collected.  A disabled hook writes nothing; in
\* every other case that stops the report one notice is written, no file is
\* scored after the check that failed and no table is rendered.
C27_RenderOnlyWithScores ==
    /\ calls # <<>> =>
          /\ config.enabled
          /\ config.cov = "ready"
          /\ measured # <<>>
          /\ all_scores # <<>>
    /\ (position = "returned" /\ ~config.enabled) =>
          /\ tr = <<>>
          /\ scored = <<>>
          /\ calls = <<>>
          /\ console = NoTable
    /\ (position = "returned" /\ config.enabled
          /\ (config.cov # "ready" \/ measured = <<>>)) =>
          /\ Cardinality(Notices) = 1
          /\ scored = <<>>
          /\ calls = <<>>
          /\ console = NoTable
    /\ (position = "returned" /\ Ready(config) /\ measured # <<>>
          /\ all_scores = <<>>) =>
          /\ Cardinality(Notices) = 1
          /\ calls = <<>>
          /\ console = NoTable

\* Files were measured, and one of them cannot be read, but the coverage
\* controller is absent: one notice, nothing scored, nothing rendered.
C27_Witness ==
    /\ position = "returned"
    /\ config.enabled
    /\ config.cov = "no_controller"
    /\ Len(measured) = MaxFiles
    /\ \E k \in DOMAIN measured : FailsToScore(k)
    /\ Cardinality(Notices) = 1
    /\ scored = <<>>
    /\ calls = <<>>

\* The render operations of a complete report, in order
RenderOrder == <<FunctionTitle, FileTitle, FolderTitle>>

\* C28: the plugin renders only after every measured file has been
\* processed; it calls render_function_table, render_file_summary and
\* render_folder_summary in that order, each once, on the complete list of
\* scores and with the configured top_n, the two summaries with the
\* configured threshold; a report that meets no failure makes all three
\* calls.
C28_RenderOnceInOrder ==
    /\ Len(calls) <= Len(RenderOrder)
    /\ \A c \in DOMAIN calls :
          /\ calls[c].op = RenderOrder[c]
          /\ calls[c].scores = ScoresUpTo(Len(measured))
          /\ calls[c].top_n = Some(config.top_n)
          /\ calls[c].threshold =
                IF c = 1 THEN Missing ELSE Some(RatOf(config.threshold))
          /\ \A k \in DOMAIN measured :
                measured[k].name \in SourceFiles =>
                    \E s \in DOMAIN scored : scored[s] = measured[k].name
    /\ (position = "returned" /\ fault = Missing /\ Collected /\ all_scores # <<>>) =>
          Len(calls) = Len(RenderOrder)

\* A complete report with --crap-top-n=1 and --crap-threshold=15 over two
\* scored files.
C28_Witness ==
    /\ position = "returned"
    /\ Len(calls) = 3
    /\ config.top_n = 1
    /\ config.threshold = MediumCrap
    /\ Len(scored) >= 2
    /\ Len(calls[3].scores) >= 2
    /\ calls[3].op = FolderTitle
    /\ Len(ranking) = 1
    /\ console.title = FolderTitle

=============================================================================
